---- MODULE Spec2Model ----
(***************************************************************************)
(* rpmautospec/changelog.py: produce_changelog(repopath).                  *)
(*                                                                         *)
(* The repository history is the sequence `history`, in the order in which *)
(* repo_obj.walk(tip, GIT_SORT_TIME) yields it (newest first); a commit is *)
(* named by its position in that sequence.  Text (the output of the rpm    *)
(* query, file paths, the version-release suffix) is a sequence of         *)
(* one-character strings, and the string operations of the source are      *)
(* operators on such sequences.                                            *)
(***************************************************************************)
EXTENDS Integers, Sequences, FiniteSets

VARIABLES
    history,     \* the commits the walk yields, newest first
    newestAge,   \* age in days of history[1] when the run starts
    repoOk,      \* FALSE: copying or opening the repository raises
    pc,          \* position in produce_changelog
    workdir,     \* the TemporaryDirectory: "none", "exists", "removed"
    acquired,    \* how many times the temporary directory was created
    released,    \* how many times it was deleted
    idx,         \* position of the walk in history
    data,        \* the defaultdict(list), in insertion order
    checkedOut,  \* commits handed to repo_obj.checkout_tree
    queried,     \* commits for which the rpm query was run
    resolved,    \* the tuples built from successful queries
    diffed,      \* commits whose diff was computed and filtered
    gi,          \* rendering: index of the group in data.items()
    ci,          \* rendering: index in reversed(commits)
    lines,       \* the local list `lines`
    result,      \* the list produce_changelog returned
    error        \* the exception that left produce_changelog, or "none"

vars == <<history, newestAge, repoOk, pc, workdir, acquired, released, idx,
          data, checkedOut, queried, resolved, diffed, gi, ci, lines, result,
          error>>

\* The longest history explored.
MaxCommits == 3

\* datetime.timedelta(days=730)
CutoffDays == 730

----------------------------------------------------------------------------
(* Text *)

Min(S) == CHOOSE x \in S : \A y \in S : x <= y
Max(S) == CHOOSE x \in S : \A y \in S : y <= x

Whitespace == {" ", "\n"}

\* str.strip()
Strip(s) ==
    LET keep == {i \in 1..Len(s) : s[i] \notin Whitespace}
    IN  IF keep = {} THEN <<>> ELSE SubSeq(s, Min(keep), Max(keep))

\* str.split("\n")[0]
FirstLine(s) ==
    LET nl == {i \in 1..Len(s) : s[i] = "\n"}
    IN  IF nl = {} THEN s ELSE SubSeq(s, 1, Min(nl) - 1)

\* str.rsplit(".", 1)[0]
RSplitDotHead(s) ==
    LET dots == {i \in 1..Len(s) : s[i] = "."}
    IN  IF dots = {} THEN s ELSE SubSeq(s, 1, Max(dots) - 1)

\* str.split("  "): the separator is two spaces, matched left to right
RECURSIVE SplitDoubleSpace(_)
SplitDoubleSpace(s) ==
    LET at == {i \in 1..(Len(s) - 1) : s[i] = " " /\ s[i + 1] = " "}
    IN  IF at = {}
        THEN <<s>>
        ELSE <<SubSeq(s, 1, Min(at) - 1)>>
                 \o SplitDoubleSpace(SubSeq(s, Min(at) + 2, Len(s)))

\* str.endswith(suffix)
EndsWith(s, suffix) ==
    /\ Len(suffix) <= Len(s)
    /\ SubSeq(s, Len(s) - Len(suffix) + 1, Len(s)) = suffix

DotSpec == <<".", "s", "p", "e", "c">>
DotPatch == <<".", "p", "a", "t", "c", "h">>

----------------------------------------------------------------------------
(* The inputs: what the packaging metadata and the history can hold *)

Chars(name, version, release) ==
    [name |-> name, version |-> version, release |-> release]

\* "p  1.0  1.fc": the release carries a dist tag
NvrDist == Chars(<<"p">>, <<"1", ".", "0">>, <<"1", ".", "f", "c">>)
\* the next release of the same version
NvrNext == Chars(<<"p">>, <<"1", ".", "0">>, <<"2", ".", "f", "c">>)
\* a dotted version and a release without a dist tag
NvrNoDist == Chars(<<"p">>, <<"1", ".", "0">>, <<"1">>)
\* no dot anywhere
NvrPlain == Chars(<<"p">>, <<"1">>, <<"1">>)

NVRs == {NvrDist, NvrNext, NvrNoDist, NvrPlain}

SpecPath == <<"p", ".", "s", "p", "e", "c">>
PatchPath == <<"a", ".", "p", "a", "t", "c", "h">>
ReadmePath == <<"R", "E", "A", "D", "M", "E">>

\* The paths of a commit's diff (d.new_file.path for d in diff.deltas); the
\* empty sequence is a diff with diff.stats.files_changed = 0.
Diffs == {<<>>, <<ReadmePath>>, <<ReadmePath, PatchPath>>, <<SpecPath>>}

\* A commit that passes every test of the walk.  The other commits differ
\* from it in one field, so that field alone decides what happens to them.
BaseCommit ==
    [parents |-> 1,        \* len(commit.parents)
     fault   |-> FALSE,    \* checkout_tree raises pygit2.GitError
     hasSpec |-> TRUE,     \* the tree holds <name>.spec
     rpmOk   |-> TRUE,     \* rpm --specfile exits with status 0
     nvr     |-> NvrDist,  \* name, version and release of the spec file
     files   |-> <<SpecPath>>]

Commits ==
    {[BaseCommit EXCEPT !.parents = n] : n \in 0..2}
        \cup {[BaseCommit EXCEPT !.fault = TRUE],
              [BaseCommit EXCEPT !.hasSpec = FALSE],
              [BaseCommit EXCEPT !.rpmOk = FALSE]}
        \cup {[BaseCommit EXCEPT !.nvr = n] : n \in NVRs}
        \cup {[BaseCommit EXCEPT !.files = f] : f \in Diffs}

\* The walk is sorted by commit time: commit i is one day older than commit
\* i - 1.  A history starts today or one day inside the recency window.
NewestAges == {1, CutoffDays - 1}

Age(i) == newestAge + i - 1

----------------------------------------------------------------------------
(* The pieces of produce_changelog *)

\* rpm --qf "%{name}  %{version}  %{release}\n" --specfile <name>.spec
QueryFormat(nvr) ==
    nvr.name \o <<" ", " ">> \o nvr.version \o <<" ", " ">> \o nvr.release
        \o <<"\n">>

\* run_command: the output of the command, or an exception
RunCommand(c) ==
    IF c.rpmOk
    THEN [ok |-> TRUE, output |-> QueryFormat(c.nvr)]
    ELSE [ok |-> FALSE, output |-> <<>>]

\* tuple(output.decode("utf-8").strip().split("\n")[0]
\*           .rsplit(".", 1)[0].split("  "))
ParseNVR(output) ==
    SplitDoubleSpace(RSplitDotHead(FirstLine(Strip(output))))

\* IsMerge with the comparison off by one
IsMerge_OffByOne(c) == c.parents > 2

\* len(commit.parents) > 1
IsMerge(c) == c.parents > 1

\* commit_dt < utcnow() - timedelta(days=730)
TooOld(i) == Age(i) > CutoffDays

\* Relevant without the test of the paths' endings
Relevant_AnyFile(files) == Len(files) > 0

\* diff.stats.files_changed is not 0 and some path ends in .spec or .patch
Relevant(files) ==
    /\ Len(files) > 0
    /\ \E k \in 1..Len(files) :
           EndsWith(files[k], DotSpec) \/ EndsWith(files[k], DotPatch)

\* DictAppend that assigns the list instead of appending to it
DictAppend_Overwrite(d, key, c) ==
    LET at == {k \in 1..Len(d) : d[k].key = key}
    IN  IF at = {}
        THEN Append(d, [key |-> key, commits |-> <<c>>])
        ELSE [d EXCEPT ![Min(at)].commits = <<c>>]

\* data[output].append(commit) on a defaultdict(list): a new key goes last
DictAppend(d, key, c) ==
    LET at == {k \in 1..Len(d) : d[k].key = key}
    IN  IF at = {}
        THEN Append(d, [key |-> key, commits |-> <<c>>])
        ELSE [d EXCEPT ![Min(at)].commits = Append(@, c)]

\* Reversed without the reversal
Reversed_Forgotten(s) == s

\* reversed(commits)
Reversed(s) == [k \in 1..Len(s) |-> s[Len(s) + 1 - k]]

\* IsLastCommit that takes the first turn of the loop for the last
IsLastCommit_First(k, commits) == k = 1

\* last_commit = idx + 1 == len(commits)
IsLastCommit(k, commits) == k = Len(commits)

\* Unwind of a directory that is not a context manager's
Unwind_Leak(w) == w

\* What leaving the `with tempfile.TemporaryDirectory()` block on an
\* exception does to the directory.
Unwind(w) == "removed"

\* f" - {nvr[1]}-{nvr[2]}"
Suffix(nvr) == <<" ", "-", " ">> \o nvr[2] \o <<"-">> \o nvr[3]

Header(c, suffix) == [kind |-> "header", commit |-> c, suffix |-> suffix]
Message(c) == [kind |-> "message", commit |-> c, suffix |-> <<>>]
Blank == [kind |-> "blank", commit |-> 0, suffix |-> <<>>]

----------------------------------------------------------------------------
(* The state machine *)

Init ==
    /\ history \in UNION {[1..n -> Commits] : n \in 1..MaxCommits}
    /\ newestAge \in NewestAges
    /\ repoOk \in BOOLEAN
    /\ pc = "start"
    /\ workdir = "none"
    /\ acquired = 0
    /\ released = 0
    /\ idx = 0
    /\ data = <<>>
    /\ checkedOut = {}
    /\ queried = {}
    /\ resolved = {}
    /\ diffed = {}
    /\ gi = 0
    /\ ci = 0
    /\ lines = <<>>
    /\ result = <<>>
    /\ error = "none"

\* An exception leaves the `with` block and produce_changelog.
Raise(name) ==
    /\ pc' = "raised"
    /\ error' = name
    /\ workdir' = Unwind(workdir)
    /\ released' = IF workdir' = "removed" THEN released + 1 ELSE released

\* with tempfile.TemporaryDirectory() as workdir:
EnterWith ==
    /\ pc = "start"
    /\ pc' = "setup"
    /\ workdir' = "exists"
    /\ acquired' = acquired + 1
    /\ UNCHANGED <<history, newestAge, repoOk, released, idx, data,
                   checkedOut, queried, resolved, diffed, gi, ci, lines,
                   result, error>>

\* shutil.copytree, pygit2.Repository, lookup_branch, peel, repo_obj.walk
Setup ==
    /\ pc = "setup"
    /\ repoOk
    /\ pc' = "walk"
    /\ idx' = 1
    /\ lines' = <<>>
    /\ data' = <<>>
    /\ UNCHANGED <<history, newestAge, repoOk, workdir, acquired, released,
                   checkedOut, queried, resolved, diffed, gi, ci, result,
                   error>>

\* the copy or the repository cannot be read
SetupFails ==
    /\ pc = "setup"
    /\ ~repoOk
    /\ Raise("GitError")
    /\ UNCHANGED <<history, newestAge, repoOk, acquired, idx, data,
                   checkedOut, queried, resolved, diffed, gi, ci, lines,
                   result>>

InLoop == pc = "walk" /\ idx \in 1..Len(history)

\* if len(commit.parents) > 1: continue
SkipMerge ==
    /\ InLoop
    /\ IsMerge(history[idx])
    /\ idx' = idx + 1
    /\ UNCHANGED <<history, newestAge, repoOk, pc, workdir, acquired,
                   released, data, checkedOut, queried, resolved, diffed,
                   gi, ci, lines, result, error>>

\* if commit_dt < now - 730 days: break
StopAtCutoff ==
    /\ InLoop
    /\ ~IsMerge(history[idx])
    /\ TooOld(idx)
    /\ pc' = "walked"
    /\ UNCHANGED <<history, newestAge, repoOk, workdir, acquired, released,
                   idx, data, checkedOut, queried, resolved, diffed, gi, ci,
                   lines, result, error>>

Visited == InLoop /\ ~IsMerge(history[idx]) /\ ~TooOld(idx)

\* repo_obj.checkout_tree raises
CheckoutFails ==
    /\ Visited
    /\ history[idx].fault
    /\ checkedOut' = checkedOut \cup {idx}
    /\ Raise("GitError")
    /\ UNCHANGED <<history, newestAge, repoOk, acquired, idx, data, queried,
                   resolved, diffed, gi, ci, lines, result>>

\* NoSpecFile that goes on to the next commit
NoSpecFile_Continue ==
    /\ Visited
    /\ ~history[idx].fault
    /\ ~history[idx].hasSpec
    /\ checkedOut' = checkedOut \cup {idx}
    /\ idx' = idx + 1
    /\ UNCHANGED <<history, newestAge, repoOk, pc, workdir, acquired,
                   released, data, queried, resolved, diffed, gi, ci, lines,
                   result, error>>

\* the checked out tree has no <name>.spec: print, break
NoSpecFile ==
    /\ Visited
    /\ ~history[idx].fault
    /\ ~history[idx].hasSpec
    /\ checkedOut' = checkedOut \cup {idx}
    /\ pc' = "walked"
    /\ UNCHANGED <<history, newestAge, repoOk, workdir, acquired, released,
                   idx, data, queried, resolved, diffed, gi, ci, lines,
                   result, error>>

Queried == Visited /\ ~history[idx].fault /\ history[idx].hasSpec

\* QueryFailed that leaves the loop
QueryFailed_Break ==
    /\ Queried
    /\ ~RunCommand(history[idx]).ok
    /\ checkedOut' = checkedOut \cup {idx}
    /\ queried' = queried \cup {idx}
    /\ pc' = "walked"
    /\ UNCHANGED <<history, newestAge, repoOk, workdir, acquired, released,
                   idx, data, resolved, diffed, gi, ci, lines, result,
                   error>>

\* run_command raises: except Exception: continue
QueryFailed ==
    /\ Queried
    /\ ~RunCommand(history[idx]).ok
    /\ checkedOut' = checkedOut \cup {idx}
    /\ queried' = queried \cup {idx}
    /\ idx' = idx + 1
    /\ UNCHANGED <<history, newestAge, repoOk, pc, workdir, acquired,
                   released, data, resolved, diffed, gi, ci, lines, result,
                   error>>

\* the query succeeds: build the tuple, diff the commit, record it if the
\* diff is relevant
Resolve ==
    /\ Queried
    /\ RunCommand(history[idx]).ok
    /\ LET output == ParseNVR(RunCommand(history[idx]).output)
       IN  /\ resolved' = resolved \cup {[commit |-> idx, output |-> output]}
           /\ data' = IF Relevant(history[idx].files)
                      THEN DictAppend(data, output, idx)
                      ELSE data
    /\ checkedOut' = checkedOut \cup {idx}
    /\ queried' = queried \cup {idx}
    /\ diffed' = diffed \cup {idx}
    /\ idx' = idx + 1
    /\ UNCHANGED <<history, newestAge, repoOk, pc, workdir, acquired,
                   released, gi, ci, lines, result, error>>

\* repo_obj.walk is exhausted
WalkExhausted ==
    /\ pc = "walk"
    /\ idx > Len(history)
    /\ pc' = "walked"
    /\ UNCHANGED <<history, newestAge, repoOk, workdir, acquired, released,
                   idx, data, checkedOut, queried, resolved, diffed, gi, ci,
                   lines, result, error>>

\* ExitWith of a `with` block that encloses the rendering loop
ExitWith_AfterRender ==
    /\ pc = "walked"
    /\ pc' = "render"
    /\ gi' = 1
    /\ ci' = 1
    /\ UNCHANGED <<history, newestAge, repoOk, workdir, acquired, released,
                   idx, data, checkedOut, queried, resolved, diffed, lines,
                   result, error>>

\* the `with` block ends: TemporaryDirectory.__exit__ deletes the directory,
\* and the loop over data.items() starts
ExitWith ==
    /\ pc = "walked"
    /\ workdir' = "removed"
    /\ released' = released + 1
    /\ pc' = "render"
    /\ gi' = 1
    /\ ci' = 1
    /\ UNCHANGED <<history, newestAge, repoOk, acquired, idx, data,
                   checkedOut, queried, resolved, diffed, lines, result,
                   error>>

Rendering == pc = "render" /\ gi \in 1..Len(data)

\* one turn of the inner loop: the header, the message and the blank line of
\* reversed(commits)[ci]
RenderEntry ==
    /\ Rendering
    /\ LET nvr == data[gi].key
           commits == data[gi].commits
           commit == Reversed(commits)[ci]
           last == IsLastCommit(ci, commits)
       IN  /\ last => Len(nvr) >= 3
           /\ lines' = lines \o
                  <<Header(commit, IF last THEN Suffix(nvr) ELSE <<>>),
                    Message(commit), Blank>>
           /\ IF ci < Len(commits)
              THEN ci' = ci + 1 /\ gi' = gi
              ELSE ci' = 1 /\ gi' = gi + 1
    /\ UNCHANGED <<history, newestAge, repoOk, pc, workdir, acquired,
                   released, idx, data, checkedOut, queried, resolved,
                   diffed, result, error>>

\* nvr[1] or nvr[2] of a tuple with fewer than three components
RenderFails ==
    /\ Rendering
    /\ IsLastCommit(ci, data[gi].commits)
    /\ Len(data[gi].key) < 3
    /\ pc' = "raised"
    /\ error' = "IndexError"
    /\ UNCHANGED <<history, newestAge, repoOk, workdir, acquired, released,
                   idx, data, checkedOut, queried, resolved, diffed, gi, ci,
                   lines, result>>

\* return lines
Return ==
    /\ pc = "render"
    /\ gi > Len(data)
    /\ pc' = "done"
    /\ result' = lines
    /\ UNCHANGED <<history, newestAge, repoOk, workdir, acquired, released,
                   idx, data, checkedOut, queried, resolved, diffed, gi, ci,
                   lines, error>>

Next ==
    \/ EnterWith
    \/ Setup
    \/ SetupFails
    \/ SkipMerge
    \/ StopAtCutoff
    \/ CheckoutFails
    \/ NoSpecFile
    \/ QueryFailed
    \/ Resolve
    \/ WalkExhausted
    \/ ExitWith
    \/ RenderEntry
    \/ RenderFails
    \/ Return

Spec == Init /\ [][Next]_vars

----------------------------------------------------------------------------
(* The vocabulary of the properties, stated on the history itself *)

Pos == 1..Len(history)

Range(q) == {q[k] : k \in 1..Len(q)}

\* the commit has more than one parent
MergeCommit(i) == history[i].parents >= 2

\* some changed path ends in .spec or .patch
ChangesSpecOrPatch(i) ==
    \E k \in 1..Len(history[i].files) :
        \/ EndsWith(history[i].files[k], <<".", "s", "p", "e", "c">>)
        \/ EndsWith(history[i].files[k], <<".", "p", "a", "t", "c", "h">>)

\* the tree holds the spec file and the query on it succeeds
ResolvesOk(i) == history[i].hasSpec /\ history[i].rpmOk

NoMerges == \A i \in Pos : ~MergeCommit(i)
NoOldCommits == \A i \in Pos : Age(i) <= CutoffDays

\* the walk cannot go past commit j
Stops(j) ==
    /\ ~MergeCommit(j)
    /\ Age(j) > CutoffDays \/ history[j].fault \/ ~history[j].hasSpec

Reached(i) == \A j \in 1..(i - 1) : ~Stops(j)

Qualifies(i) ==
    /\ ~MergeCommit(i)
    /\ Age(i) <= CutoffDays
    /\ ~history[i].fault
    /\ ResolvesOk(i)
    /\ ChangesSpecOrPatch(i)

\* the commits a run that returns has to render
Expected == {i \in Pos : Reached(i) /\ Qualifies(i)}

\* the Version Triple of the commit's spec file
TripleOf(i) ==
    LET n == history[i].nvr
        dots == {k \in 1..Len(n.release) : n.release[k] = "."}
        release == IF dots = {} THEN n.release
                   ELSE SubSeq(n.release, 1, Max(dots) - 1)
    IN  <<n.name, n.version, release>>

GroupsOf(i) == {g \in 1..Len(data) : i \in Range(data[g].commits)}

Recorded(i) == GroupsOf(i) # {}

RecordCount(i) ==
    Cardinality({p \in (1..Len(data)) \X Pos :
                     /\ p[2] <= Len(data[p[1]].commits)
                     /\ data[p[1]].commits[p[2]] = i})

Headers(out) == {k \in 1..Len(out) : out[k].kind = "header"}

HeaderCount(out, i) == Cardinality({k \in Headers(out) : out[k].commit = i})

MessageCount(out, i) ==
    Cardinality({k \in 1..Len(out) :
                     out[k].kind = "message" /\ out[k].commit = i})

HeaderCommits(out) == {out[k].commit : k \in Headers(out)}

Appears(i) ==
    \/ \E k \in 1..Len(lines) : lines[k].commit = i
    \/ \E k \in 1..Len(result) : result[k].commit = i

----------------------------------------------------------------------------
(* The properties *)

\* C1, as stated: in a history without merge commits and without commits
\* older than the cutoff, every commit that changes a .spec or .patch path
\* and resolves appears exactly once in the returned output, whatever the
\* other commits are.
C1_AsStated ==
    (pc = "done" /\ NoMerges /\ NoOldCommits) =>
        \A i \in Pos :
            (ChangesSpecOrPatch(i) /\ ResolvesOk(i)) =>
                HeaderCount(result, i) = 1 /\ MessageCount(result, i) = 1

\* no commit newer than i has a tree without the spec file
SpecFileKept(i) == \A j \in 1..(i - 1) : history[j].hasSpec

\* C1, amended: in such a history, a commit that changes a .spec or .patch
\* path and resolves, with no newer commit whose tree lacks the spec file,
\* is in exactly one group exactly once as soon as the walk has passed it,
\* and has exactly one header and one message line in the returned output.
C1_RecordedOnce ==
    (NoMerges /\ NoOldCommits) =>
        \A i \in Pos :
            (ChangesSpecOrPatch(i) /\ ResolvesOk(i) /\ SpecFileKept(i)) =>
                /\ (pc # "start" /\ pc # "setup" /\ idx > i) =>
                       RecordCount(i) = 1 /\ Cardinality(GroupsOf(i)) = 1
                /\ pc = "done" =>
                       /\ HeaderCount(result, i) = 1
                       /\ MessageCount(result, i) = 1

\* C1's case: a run returned the entry of a commit that has the same triple
\* as a newer recorded commit and is followed by a tree without the spec file.
C1_Witness ==
    /\ pc = "done"
    /\ NoMerges /\ NoOldCommits
    /\ \E i, j, m \in Pos :
           /\ i < j /\ j < m
           /\ ~history[m].hasSpec
           /\ TripleOf(i) = TripleOf(j)
           /\ HeaderCount(result, i) = 1 /\ HeaderCount(result, j) = 1

\* the commit of the group that is oldest by commit time
OldestOf(g) ==
    CHOOSE c \in Range(data[g].commits) :
        \A d \in Range(data[g].commits) : Age(d) <= Age(c)

\* C2, as stated: in the returned output a header carries the
\* " - <version>-<release>" suffix exactly when it is the header of the
\* oldest commit of its group.
C2_AsStated ==
    pc = "done" =>
        \A k \in Headers(result) :
            \A g \in GroupsOf(result[k].commit) :
                result[k].suffix # <<>> <=> result[k].commit = OldestOf(g)

\* the commit of the group that is newest by commit time
NewestOf(g) ==
    CHOOSE c \in Range(data[g].commits) :
        \A d \in Range(data[g].commits) : Age(c) <= Age(d)

\* C2, amended: in the returned output a header carries the
\* " - <version>-<release>" suffix of its group exactly when it is the header
\* of the newest commit of that group, which is the last one rendered for
\* the group; so each group has exactly one such header.
C2_SuffixOnNewest ==
    pc = "done" =>
        /\ \A k \in Headers(result) :
               \A g \in GroupsOf(result[k].commit) :
                   IF result[k].commit = NewestOf(g)
                   THEN /\ result[k].suffix =
                               <<" ", "-", " ">> \o data[g].key[2] \o <<"-">>
                                   \o data[g].key[3]
                        /\ \A l \in Headers(result) :
                               result[l].commit \in Range(data[g].commits)
                                   => l <= k
                   ELSE result[k].suffix = <<>>
        /\ \A g \in 1..Len(data) :
               Cardinality({k \in Headers(result) :
                                /\ result[k].commit \in Range(data[g].commits)
                                /\ result[k].suffix # <<>>}) = 1

\* C2's case: a returned output with a group of several commits.
C2_Witness ==
    /\ pc = "done"
    /\ \E g \in 1..Len(data) : Len(data[g].commits) >= 2
    /\ \E k \in Headers(result) : result[k].suffix = <<>>

\* C3: a successful query on a spec file with name, version and release
\* yields the tuple (name, version, release without its last dotted
\* suffix), the release unchanged when it has no dot: three components,
\* name and version untouched.
C3_TripleFromQuery ==
    \A r \in resolved :
        /\ Len(r.output) = 3
        /\ r.output = TripleOf(r.commit)

\* C4: when produce_changelog has ended, by return or by exception, the
\* temporary directory does not exist.
C4_WorkdirRemoved ==
    pc \in {"done", "raised"} => workdir = "removed"

\* C4's case: an exception raised by a checkout left produce_changelog.
C4_Witness ==
    /\ pc = "raised"
    /\ error = "GitError"
    /\ checkedOut # {}
    /\ workdir = "removed"

\* C5, as stated: the temporary directory is still held while the groups
\* are rendered; it is deleted only when rendering has finished or failed.
C5_AsStated ==
    /\ pc = "render" => workdir = "exists"
    /\ workdir = "removed" => pc \in {"done", "raised"}

\* C5, amended: the temporary directory is created exactly once, before the
\* walk, held during the whole walk, and deleted exactly once, when the walk
\* ends and before the first group is rendered; it is not held during
\* rendering.
C5_ReleasedAfterWalk ==
    /\ acquired <= 1 /\ released <= 1
    /\ pc = "start" => acquired = 0 /\ workdir = "none"
    /\ pc \in {"setup", "walk", "walked"} =>
           acquired = 1 /\ released = 0 /\ workdir = "exists"
    /\ pc \in {"render", "done", "raised"} =>
           acquired = 1 /\ released = 1 /\ workdir = "removed"

\* C5's case: an entry is being rendered after the directory was deleted.
C5_Witness ==
    /\ pc = "render"
    /\ Len(lines) > 0
    /\ gi <= Len(data)
    /\ workdir = "removed"
    /\ released = 1

\* the walk is at commit i, whose query fails
QueryFailsAt(i) ==
    /\ pc = "walk" /\ idx = i
    /\ ~MergeCommit(i) /\ Age(i) <= CutoffDays
    /\ ~history[i].fault /\ history[i].hasSpec /\ ~history[i].rpmOk

NeverRecorded(i) == ~Recorded(i) /\ ~Appears(i)

\* C6: when the query fails for a visited commit, the groups are unchanged,
\* nothing is raised and the walk goes on with the next commit; the commit
\* is in no group and no output, and a run that returns renders exactly the
\* qualifying commits the walk reaches.
C6_FailedQuerySkipped ==
    [][/\ \A i \in Pos :
              QueryFailsAt(i) =>
                  /\ data' = data
                  /\ pc' = "walk" /\ idx' = i + 1
                  /\ error' = "none" /\ workdir' = workdir
       /\ \A i \in Pos : ~history[i].rpmOk => NeverRecorded(i)'
       /\ (pc = "done")' => (HeaderCommits(result) = Expected)'
      ]_vars

\* C6's case: a run returned the entry of a commit older than one whose
\* query had failed.
C6_Witness ==
    /\ pc = "done"
    /\ \E i, j \in Pos :
           /\ i < j
           /\ i \in queried /\ ~history[i].rpmOk
           /\ HeaderCount(result, j) = 1

\* the walk is at commit i, whose tree has no spec file
SpecMissingAt(i) ==
    /\ pc = "walk" /\ idx = i
    /\ ~MergeCommit(i) /\ Age(i) <= CutoffDays
    /\ ~history[i].fault /\ ~history[i].hasSpec

Touched(i) == i \in checkedOut \cup queried \cup diffed \/ Recorded(i)

\* C7: at the first checked out commit without the spec file the walk ends
\* without raising and with the groups unchanged; no older commit is checked
\* out, resolved or recorded, and a run that returns has rendered every
\* recorded commit; the run fails to return only on a recorded tuple of fewer
\* than three components.
C7_WalkEndsAtMissingSpec ==
    [][/\ \A i \in Pos :
              SpecMissingAt(i) =>
                  /\ pc' = "walked" /\ error' = "none"
                  /\ data' = data
                  /\ checkedOut' = checkedOut \cup {i}
       /\ \A m \in Pos :
              (m \in checkedOut' /\ ~history[m].hasSpec) =>
                  /\ pc' # "walk"
                  /\ \A j \in Pos : j > m => ~Touched(j)'
                  /\ pc' = "raised" =>
                         /\ error' = "IndexError"
                         /\ \E g \in 1..Len(data') : Len(data'[g].key) < 3
       /\ (pc = "done")' =>
              (\A i \in Pos : Recorded(i) => HeaderCount(result, i) = 1)'
      ]_vars

\* C7's case: a run returned entries after the walk had ended at a commit
\* without the spec file that has older commits behind it.
C7_Witness ==
    /\ pc = "done"
    /\ Len(result) > 0
    /\ \E m \in checkedOut : ~history[m].hasSpec /\ m < Len(history)

\* the triple of commit a was met before the triple of commit b
FirstMet(i) == Min({j \in Expected : TripleOf(j) = TripleOf(i)})

ComesBefore(a, b) ==
    \/ FirstMet(a) < FirstMet(b)
    \/ TripleOf(a) = TripleOf(b) /\ a > b

\* C8: the returned entries are ordered by group, the groups in the order in
\* which the walk first met their triple, and inside a group from the oldest
\* commit to the newest.
C8_EntryOrder ==
    pc = "done" =>
        /\ HeaderCommits(result) = Expected
        /\ \A k, l \in Headers(result) :
               k < l => ComesBefore(result[k].commit, result[l].commit)

\* C8's case: a returned output in which a commit of the first group is
\* older than a commit of the second group.
C8_Witness ==
    /\ pc = "done"
    /\ \E a, b, c \in Expected :
           /\ a < b /\ b < c
           /\ TripleOf(a) = TripleOf(c)
           /\ TripleOf(a) # TripleOf(b)

\* C9: a merge commit is never checked out, resolved, filtered, recorded or
\* rendered, and the walk goes on with the next commit after it.
C9_MergeSkipped ==
    [][/\ \A i \in Pos :
              (pc = "walk" /\ idx = i /\ MergeCommit(i)) =>
                  pc' = "walk" /\ idx' = i + 1 /\ data' = data
       /\ \A i \in Pos :
              MergeCommit(i) => (~Touched(i) /\ ~Appears(i))'
      ]_vars

\* C9's case: a run returned the entry of a commit older than a merge commit.
C9_Witness ==
    /\ pc = "done"
    /\ \E i, j \in Pos :
           i < j /\ MergeCommit(i) /\ HeaderCount(result, j) = 1

\* C10: a commit whose diff has no file, or no path ending in .spec or
\* .patch, is in no group and no output; a resolved commit with one such
\* path is recorded.
C10_RelevanceFilter ==
    /\ \A i \in Pos : ~ChangesSpecOrPatch(i) => NeverRecorded(i)
    /\ \A i \in diffed : ChangesSpecOrPatch(i) => Recorded(i)

\* C10's case: the filter has dropped a commit without files and one with
\* unrelated files, and kept one that changes a patch beside another file.
C10_Witness ==
    /\ \E i \in diffed : Len(history[i].files) = 0
    /\ \E i \in diffed :
           Len(history[i].files) > 0 /\ ~ChangesSpecOrPatch(i)
    /\ \E i \in diffed :
           /\ Len(history[i].files) = 2
           /\ ChangesSpecOrPatch(i)
           /\ Recorded(i)

====
